---- MODULE Spec2Model ----
(***************************************************************************)
(* A model of tasoc_tpfs.py: the MyTPF data holder (constructor, shape,    *)
(* get_central_coordinate, plot, _plot_aperture) and the get_tasoc_tpf     *)
(* pipeline.  The FITS reader, the coordinate system, the image plotter    *)
(* and the search/download client are libraries: they are the environment, *)
(* and each of their calls either raises or returns a value drawn from a   *)
(* bounded set.                                                            *)
(*                                                                         *)
(* Arrays are records [shape |-> <<rows, cols>>, data |-> f] with f a      *)
(* function on the 0-based index pairs <<i, j>>, as in the source.         *)
(* Half-pixel positions such as j - 0.5 are kept in units of 1/2:          *)
(* the number n - 0.5 is the integer 2n - 1.                               *)
(***************************************************************************)
EXTENDS Integers, Sequences, FiniteSets, TLC

VARIABLES
    fs,       \* the file behind the file name: a FITS file, or no file
    hdul,     \* the handle of fits.open: "none", "open" or "closed"
    opens,    \* how many times the file has been opened
    cpc,      \* position inside MyTPF.__init__
    self,     \* the object under construction
    obj,      \* the constructed MyTPF, or None
    exc,      \* the error that reached the caller, or "none"
    result,   \* what the last call of shape / get_central_coordinate returned
    ax,       \* the axis as the last call of plot / _plot_aperture left it
    cm,       \* the caller's own mask array
    call,     \* the last call made on the object, with its mask argument
    pc,       \* position inside get_tasoc_tpf
    loc,      \* the arguments and locals of get_tasoc_tpf
    log       \* the calls get_tasoc_tpf has made, in order

vars == <<fs, hdul, opens, cpc, self, obj, exc, result, ax, cm, call, pc, loc, log>>

----------------------------------------------------------------------------
(* Bounds *)

MaxDim == 3        \* rows and columns of the flux and flag arrays: 1..MaxDim
MaxFlag == 7       \* flag values: 0..MaxFlag
MaxCells == 9      \* cells of a caller-supplied mask: rows * columns <= MaxCells

----------------------------------------------------------------------------
(* Values *)

None == [kind |-> "None"]

\* an error of the given type raised at the given source line; no error
Raise(type, line) == [kind |-> type, line |-> line]
NoExc == [kind |-> "none"]

Cells(r, c) == (0 .. r - 1) \X (0 .. c - 1)

Array(r, c, f) == [kind |-> "ndarray", shape |-> <<r, c>>, data |-> f]

Size(a) == a.shape[1] * a.shape[2]

\* a flux image of r rows and c columns whose cells are all different
FluxOf(r, c) == Array(r, c, [p \in Cells(r, c) |-> p[1] * c + p[2]])

\* flag arrays of r rows and c columns: value v in one cell, b in the others
FlagArrays(r, c, Vals) ==
    { Array(r, c, [p \in Cells(r, c) |-> IF p = q THEN v ELSE b]) :
        q \in Cells(r, c), v \in Vals, b \in Vals }

BoolArrays(r, c) == { Array(r, c, f) : f \in [Cells(r, c) -> BOOLEAN] }

Headers == { [crval |-> <<ra, dec>>, valid |-> ok] : ra \in {10}, dec \in {50, 60}, ok \in {TRUE} }

\* a FITS file of n HDUs (0 .. n-1); HDU 2 holds the image and its header,
\* HDU 3 the flag array
Fits(n, flux, flags, hdr) ==
    [kind |-> "fits", nhdu |-> n, flux |-> flux, flags |-> flags, header |-> hdr]

\* the files whose flag array has the shape of the image
WellFormedFiles(Vals) ==
    UNION { { Fits(4, FluxOf(r, c), fl, h) : fl \in FlagArrays(r, c, Vals), h \in Headers }
            : r \in 1 .. MaxDim, c \in 1 .. MaxDim }

\* files with too few HDUs, with a header no coordinate system can be built
\* from, or with a flag array of another shape than the image
IllFormedFiles ==
    { Fits(n, FluxOf(1, 2), Array(1, 2, [p \in Cells(1, 2) |-> 2]),
           [crval |-> <<10, 50>>, valid |-> (n < 4)]) : n \in 2 .. 4 }
    \cup { Fits(4, FluxOf(d[1], d[2]),
                Array(d[2], d[1], [p \in Cells(d[2], d[1]) |-> 2 * (p[1] % 2)]),
                [crval |-> <<10, 50>>, valid |-> TRUE]) :
             d \in { e \in (1 .. MaxDim) \X (1 .. MaxDim) : e[1] # e[2] } }

WellFormed(f) == f.kind = "fits" /\ f.nhdu >= 4 /\ f.header.valid /\ f.flags.shape = f.flux.shape

----------------------------------------------------------------------------
(* MyTPF.__init__ *)

\* x & 2 for an integer x >= 0
BitAnd2(x) == IF (x \div 2) % 2 = 1 THEN 2 ELSE 0

\* ndarray.astype(bool): a cell is true exactly when it is not 0
AsBool(a) == Array(a.shape[1], a.shape[2], [p \in DOMAIN a.data |-> a.data[p] # 0])

\* a variant that leaves out the "& 2": every flag but 0 counts
PipelineMaskAnyBit(flags) == AsBool(flags)

\* (hdul[3].data & 2).astype(bool)
PipelineMask(flags) ==
    AsBool(Array(flags.shape[1], flags.shape[2],
                 [p \in DOMAIN flags.data |-> BitAnd2(flags.data[p])]))

\* WCS(hdul[2]): the coordinate system of a header
WCS(hdr) == [kind |-> "WCS", crval |-> hdr.crval]

\* a variant without the with block: the close is skipped when a line raises
with_exit_leak(h, raised) == IF raised THEN h ELSE "closed"

\* leaving the with block, normally or by an exception, closes the handle
with_exit(h, raised) == "closed"

Unset == [kind |-> "unset"]

NewSelf == [kind |-> "MyTPF", filename |-> Unset, flux |-> Unset,
            pipeline_mask |-> Unset, wcs |-> Unset]

FileName == [kind |-> "str", str |-> "lc.fits"]

\* line 26: fits.open(filename)
CtorOpen ==
    /\ cpc = "l26"
    /\ IF fs.kind = "fits"
       THEN /\ hdul' = "open"
            /\ opens' = opens + 1
            /\ cpc' = "l27"
            /\ UNCHANGED exc
       ELSE /\ cpc' = "raised"
            /\ exc' = Raise("FileNotFoundError", 26)
            /\ UNCHANGED <<hdul, opens>>
    /\ UNCHANGED <<fs, self, obj, result, ax, cm, call, pc, loc, log>>

\* lines 27-28: self.filename = filename; self.flux = hdul[2].data
CtorFlux ==
    /\ cpc = "l27"
    /\ IF fs.nhdu > 2
       THEN /\ self' = [self EXCEPT !.filename = FileName, !.flux = fs.flux]
            /\ cpc' = "l29"
            /\ UNCHANGED <<hdul, exc>>
       ELSE /\ self' = [self EXCEPT !.filename = FileName]
            /\ hdul' = with_exit(hdul, TRUE)
            /\ cpc' = "raised"
            /\ exc' = Raise("IndexError", 28)
    /\ UNCHANGED <<fs, opens, obj, result, ax, cm, call, pc, loc, log>>

\* line 29: self.pipeline_mask = (hdul[3].data & 2).astype(bool)
CtorMask ==
    /\ cpc = "l29"
    /\ IF fs.nhdu > 3
       THEN /\ self' = [self EXCEPT !.pipeline_mask = PipelineMask(fs.flags)]
            /\ cpc' = "l30"
            /\ UNCHANGED <<hdul, exc>>
       ELSE /\ hdul' = with_exit(hdul, TRUE)
            /\ cpc' = "raised"
            /\ exc' = Raise("IndexError", 29)
            /\ UNCHANGED self
    /\ UNCHANGED <<fs, opens, obj, result, ax, cm, call, pc, loc, log>>

\* line 30 and the end of the with block: self.wcs = WCS(hdul[2])
CtorWcs ==
    /\ cpc = "l30"
    /\ IF fs.header.valid
       THEN /\ self' = [self EXCEPT !.wcs = WCS(fs.header)]
            /\ obj' = self'
            /\ hdul' = with_exit(hdul, FALSE)
            /\ cpc' = "done"
            /\ UNCHANGED exc
       ELSE /\ hdul' = with_exit(hdul, TRUE)
            /\ cpc' = "raised"
            /\ exc' = Raise("ValueError", 30)
            /\ UNCHANGED <<self, obj>>
    /\ UNCHANGED <<fs, opens, result, ax, cm, call, pc, loc, log>>

Ctor == CtorOpen \/ CtorFlux \/ CtorMask \/ CtorWcs

\* the object the constructor builds from a well-formed file
Loaded(f) == [kind |-> "MyTPF", filename |-> FileName, flux |-> f.flux,
              pipeline_mask |-> PipelineMask(f.flags), wcs |-> WCS(f.header)]

----------------------------------------------------------------------------
(* MyTPF.shape, MyTPF.get_central_coordinate *)

\* a variant that returns (width, height)
shape_swapped(s) == <<s.flux.shape[2], s.flux.shape[1]>>

\* line 36: self.flux.shape
shape(s) == s.flux.shape

\* the stub coordinate system: pixel (x, y) is at crval + (x, y)
pixel_to_world(wcs, x, y) ==
    [kind |-> "SkyCoord", ra |-> wcs.crval[1] + x, dec |-> wcs.crval[2] + y]

\* a variant that passes the row index first
get_central_coordinate_swapped(s) ==
    LET h == shape(s)[1]
        w == shape(s)[2]
    IN  pixel_to_world(s.wcs, h \div 2, w \div 2)

\* lines 41-42
get_central_coordinate(s) ==
    LET h == shape(s)[1]
        w == shape(s)[2]
    IN  pixel_to_world(s.wcs, w \div 2, h \div 2)

----------------------------------------------------------------------------
(* MyTPF.plot, MyTPF._plot_aperture *)

Str(t) == [kind |-> "str", str |-> t]

NewAxes == [kind |-> "Axes", artists |-> <<>>]

\* lk.utils.plot_image(self.flux, ax=ax, **kw): draws the image on the given
\* axis, or on a new one when ax is None, and returns the axis
plot_image(flux, axin) ==
    LET a == IF axin.kind = "None" THEN NewAxes ELSE axin
    IN  [a EXCEPT !.artists = Append(@, [kind |-> "image", data |-> flux])]

\* lines 73-80: xy2 is twice xy, so that j - 0.5 is the integer 2j - 1
Rectangle(xy2, width, height, color, fill, hatch) ==
    [kind |-> "Rectangle", xy2 |-> xy2, width |-> width, height |-> height,
     color |-> color, fill |-> fill, hatch |-> hatch]

\* a variant that anchors the rectangle at (i - 0.5, j - 0.5)
RectXY2RowFirst(i, j) == <<2 * i - 1, 2 * j - 1>>

\* line 72: xy = (j - 0.5, i - 0.5), doubled
RectXY2(i, j) == <<2 * j - 1, 2 * i - 1>>

\* line 81
add_patch(a, rect) == [a EXCEPT !.artists = Append(@, rect)]

\* lines 69-81 from cell k on, k = i * columns + j: the two loops run over the
\* cells in row-major order
RECURSIVE PlotCellsFrom(_, _, _, _)
PlotCellsFrom(k, a, aperture_mask, mask_color) ==
    LET rows == aperture_mask.shape[1]
        cols == aperture_mask.shape[2]
    IN  IF k >= rows * cols
        THEN a
        ELSE LET i == k \div cols
                 j == k % cols
                 a1 == IF aperture_mask.data[<<i, j>>]
                       THEN add_patch(a, Rectangle(RectXY2(i, j), 1, 1, mask_color, FALSE, "//"))
                       ELSE a
             IN  PlotCellsFrom(k + 1, a1, aperture_mask, mask_color)

\* lines 66-82
_plot_aperture(a, aperture_mask, mask_color) == PlotCellsFrom(0, a, aperture_mask, mask_color)

\* line 60, aperture_mask == "pipeline": "true", "false" or "raise".  For a
\* string it is the comparison of two strings.  For an array the outcome is
\* the array library's: either the scalar False (elementwise = FALSE), or an
\* array of False, one per cell (elementwise = TRUE), whose truth value is an
\* error when it has more than one cell.
IsPipeline(aperture_mask, elementwise) ==
    IF aperture_mask.kind = "str"
    THEN IF aperture_mask.str = "pipeline" THEN "true" ELSE "false"
    ELSE IF elementwise /\ Size(aperture_mask) > 1 THEN "raise" ELSE "false"

\* a variant that stores the mask passed in the object
PlotSelfStoresMask(s, aperture_mask) ==
    IF aperture_mask.kind = "ndarray" THEN [s EXCEPT !.pipeline_mask = aperture_mask] ELSE s

\* line 61 rebinds the local name only: the object keeps its fields
PlotSelf(s, aperture_mask) == s

\* lines 57-64.  The outcome names the axis as the call left it, the value
\* returned (None when the call raised) and the object after the call.
plot(s, axin, aperture_mask, mask_color, elementwise) ==
    LET a1 == plot_image(s.flux, axin)
    IN  IF aperture_mask.kind = "None"
        THEN [exc |-> NoExc, ax |-> a1, ret |-> a1, self |-> s]
        ELSE LET t == IsPipeline(aperture_mask, elementwise)
             IN  IF t = "raise"
                 THEN [exc |-> Raise("ValueError", 60), ax |-> a1, ret |-> None, self |-> s]
                 ELSE IF t = "false" /\ aperture_mask.kind = "str"
                 THEN \* line 69: a string other than "pipeline" has no shape
                      [exc |-> Raise("AttributeError", 69), ax |-> a1, ret |-> None, self |-> s]
                 ELSE LET m == IF t = "true" THEN s.pipeline_mask ELSE aperture_mask
                          a2 == _plot_aperture(a1, m, mask_color)
                      IN  [exc |-> NoExc, ax |-> a2, ret |-> a2,
                           self |-> PlotSelf(s, aperture_mask)]

----------------------------------------------------------------------------
(* A caller of a constructed object *)

Ready == cpc = "done" /\ pc = "idle"

NoCall == [op |-> "none"]

\* MyTPF(filename)
New ==
    /\ cpc = "idle"
    /\ pc = "idle"
    /\ cpc' = "l26"
    /\ self' = NewSelf
    /\ UNCHANGED <<fs, hdul, opens, obj, exc, result, ax, cm, call, pc, loc, log>>

\* tpf.shape
CallShape ==
    /\ Ready
    /\ result' = [kind |-> "shape", shape |-> shape(obj)]
    /\ exc' = NoExc
    /\ call' = [op |-> "shape"]
    /\ UNCHANGED <<fs, hdul, opens, cpc, self, obj, ax, cm, pc, loc, log>>

\* tpf.get_central_coordinate()
CallCentral ==
    /\ Ready
    /\ result' = get_central_coordinate(obj)
    /\ exc' = NoExc
    /\ call' = [op |-> "get_central_coordinate"]
    /\ UNCHANGED <<fs, hdul, opens, cpc, self, obj, ax, cm, pc, loc, log>>

\* tpf.plot(aperture_mask=sel) on a new axis
CallPlotWith(sel) ==
    \E elementwise \in BOOLEAN :
        LET out == plot(obj, None, sel, "w", elementwise)
        IN  /\ Ready
            /\ ax' = out.ax
            /\ result' = out.ret
            /\ exc' = out.exc
            /\ obj' = out.self
            /\ call' = [op |-> "plot", aperture_mask |-> sel]
            /\ UNCHANGED <<fs, hdul, opens, cpc, self, cm, pc, loc, log>>

\* tpf.plot(): the default, aperture_mask="pipeline"
CallPlotPipeline == CallPlotWith(Str("pipeline"))

\* tpf.plot(aperture_mask=None)
CallPlotNone == CallPlotWith(None)

\* tpf.plot(aperture_mask=cm), cm the caller's own array
CallPlotArray == CallPlotWith(cm)

\* tpf._plot_aperture(ax, cm) on an axis of the caller's
CallPlotAperture ==
    /\ Ready
    /\ ax' = _plot_aperture(NewAxes, cm, "w")
    /\ result' = ax'
    /\ exc' = NoExc
    /\ call' = [op |-> "_plot_aperture", aperture_mask |-> cm]
    /\ UNCHANGED <<fs, hdul, opens, cpc, self, obj, cm, pc, loc, log>>

Methods ==
    \/ CallShape
    \/ CallCentral
    \/ CallPlotPipeline
    \/ CallPlotNone
    \/ CallPlotArray
    \/ CallPlotAperture

----------------------------------------------------------------------------
(* Loading a file and using the object *)

OneMask == Array(1, 2, [p \in Cells(1, 2) |-> p[2] = 0])

InitLoad ==
    /\ fs \in WellFormedFiles(0 .. MaxFlag) \cup IllFormedFiles \cup {None}
    /\ hdul = "none"
    /\ opens = 0
    /\ cpc = "idle"
    /\ self = None
    /\ obj = None
    /\ exc = NoExc
    /\ result = None
    /\ ax = None
    /\ cm = OneMask
    /\ call = NoCall
    /\ pc = "idle"
    /\ loc = None
    /\ log = <<>>

NextLoad == New \/ Ctor \/ Methods

SpecLoad == InitLoad /\ [][NextLoad]_vars

----------------------------------------------------------------------------
(* Plotting a constructed object *)

HeaderOne == [crval |-> <<10, 50>>, valid |-> TRUE]

\* two files of a 1 x 2 image: the aperture is the left cell, or the right one
PlotFiles ==
    { Fits(4, FluxOf(1, 2), Array(1, 2, [p \in Cells(1, 2) |-> IF p[2] = k THEN 2 ELSE 5]),
           HeaderOne) : k \in 0 .. 1 }

\* the boolean arrays of at most MaxCells cells
Masks ==
    UNION { BoolArrays(d[1], d[2]) :
              d \in { e \in (1 .. MaxCells) \X (1 .. MaxCells) : e[1] * e[2] <= MaxCells } }

InitPlot ==
    /\ fs \in PlotFiles
    /\ hdul = "closed"
    /\ opens = 1
    /\ cpc = "done"
    /\ self = Loaded(fs)
    /\ obj = Loaded(fs)
    /\ exc = NoExc
    /\ result = None
    /\ ax = None
    /\ cm \in Masks
    /\ call = NoCall
    /\ pc = "idle"
    /\ loc = None
    /\ log = <<>>

NextPlot == Methods

SpecPlot == InitPlot /\ [][NextPlot]_vars

----------------------------------------------------------------------------
(* get_tasoc_tpf *)

IntV(n) == [kind |-> "int", int |-> n]

Tics == {142086812, 25155310}
Sectors == {None, IntV(6)}

\* the files the archive may serve
PipeFiles == WellFormedFiles({1, 2}) \cup IllFormedFiles

NewLocals(tic, sector) ==
    [tic |-> tic, sector |-> sector, sr |-> None, lc |-> None, tpf0 |-> None,
     coord |-> None, tpf |-> None, ret |-> None]

\* line 96: lk.search_lightcurve(f"TIC {tic}", author="tasoc", sector=sector)
LightcurveQuery(tic, sector) ==
    [op |-> "search_lightcurve", target |-> <<"TIC ", tic>>, author |-> "tasoc",
     sector |-> sector]

\* a variant that leaves the sector out of the cutout search
TesscutQueryAnySector(coord, sector) ==
    [op |-> "search_tesscut", target |-> coord, sector |-> None]

\* line 101: lk.search_tesscut(coord, sector=sector)
TesscutQuery(coord, sector) ==
    [op |-> "search_tesscut", target |-> coord, sector |-> sector]

\* lines 97 and 102: sr.download(), sr.download(cutout_size=...)
DownloadCall(service, cutout_size) ==
    [op |-> "download", service |-> service, cutout_size |-> cutout_size]

\* line 102: the cutout size asked for
CutoutSize(tpf0) == [kind |-> "shape", shape |-> shape(tpf0)]

\* a call and how it ended: "raise", or what it returned
Done(c, out) == [call |-> c, out |-> out]

SearchResult(service, n) == [kind |-> "SearchResult", service |-> service, n |-> n]

\* a search raises, or returns a result that is empty or not
SearchOutcomes == {"raise", "empty", "found"}

\* a download raises or returns: None from an empty search result, the
\* product from any other
DownloadOutcomes(sr) == IF sr.n = 0 THEN {"raise", "none"} ELSE {"raise", "product"}

\* the cutout the service returns: of the size asked for, with a mask of its own
Cutout(coord, size, own) ==
    [kind |-> "TessTargetPixelFile", center |-> coord, shape |-> size.shape,
     pipeline_mask |-> Array(size.shape[1], size.shape[2],
                             [p \in Cells(size.shape[1], size.shape[2]) |-> own])]

\* a variant that leaves the cutout's own mask in place
AssignMaskDropped(tpf, tpf0) == tpf

\* line 103: tpf.pipeline_mask = tpf0.pipeline_mask
AssignMask(tpf, tpf0) == [tpf EXCEPT !.pipeline_mask = tpf0.pipeline_mask]

\* a variant that swallows the error of the first download and goes on
AfterRaiseSwallowed(line) == IF line = 97 THEN "l98" ELSE "raised"

\* lines 96-104 stand in no try block: an error raised at any of them leaves
\* the function
AfterRaise(line) == "raised"

pipeFrame == <<hdul, opens, cpc, self, obj, result, ax, cm, call>>

\* line 96
L96 ==
    /\ pc = "l96"
    /\ \E out \in SearchOutcomes :
        /\ log' = Append(log, Done(LightcurveQuery(loc.tic, loc.sector), out))
        /\ IF out = "raise"
           THEN /\ pc' = AfterRaise(96)
                /\ exc' = Raise("SearchError", 96)
                /\ UNCHANGED loc
           ELSE /\ pc' = "l97"
                /\ loc' = [loc EXCEPT !.sr =
                             SearchResult("lightcurve", IF out = "empty" THEN 0 ELSE 1)]
                /\ UNCHANGED exc
    /\ UNCHANGED <<fs, pipeFrame>>

\* line 97
L97 ==
    /\ pc = "l97"
    /\ \E out \in DownloadOutcomes(loc.sr) :
        /\ log' = Append(log, Done(DownloadCall("lightcurve", None), out))
        /\ IF out = "raise"
           THEN /\ pc' = AfterRaise(97)
                /\ exc' = Raise("DownloadError", 97)
                /\ UNCHANGED <<loc, fs>>
           ELSE IF out = "none"
           THEN /\ pc' = "l98"
                /\ loc' = [loc EXCEPT !.lc = None]
                /\ UNCHANGED <<exc, fs>>
           ELSE /\ pc' = "l98"
                /\ fs' \in PipeFiles
                /\ loc' = [loc EXCEPT !.lc = [kind |-> "LightCurve", filename |-> FileName]]
                /\ UNCHANGED exc
    /\ UNCHANGED pipeFrame

\* line 98, the call: lc.filename, then MyTPF(...)
L98 ==
    /\ pc = "l98"
    /\ IF loc.lc.kind = "None"
       THEN /\ pc' = AfterRaise(98)
            /\ exc' = Raise("AttributeError", 98)
            /\ UNCHANGED <<cpc, self>>
       ELSE /\ pc' = "l98c"
            /\ cpc' = "l26"
            /\ self' = NewSelf
            /\ UNCHANGED exc
    /\ UNCHANGED <<fs, hdul, opens, obj, result, ax, cm, call, loc, log>>

\* line 98, the return of the constructor: tpf0 is bound, or the error goes on
L98Return ==
    /\ pc = "l98c"
    /\ cpc \in {"done", "raised"}
    /\ log' = Append(log, Done([op |-> "MyTPF", filename |-> loc.lc.filename],
                               IF cpc = "done" THEN "object" ELSE "raise"))
    /\ IF cpc = "done"
       THEN /\ pc' = "l100"
            /\ loc' = [loc EXCEPT !.tpf0 = obj]
       ELSE /\ pc' = AfterRaise(98)
            /\ UNCHANGED loc
    /\ UNCHANGED <<fs, exc, pipeFrame>>

\* line 100
L100 ==
    /\ pc = "l100"
    /\ loc' = [loc EXCEPT !.coord = get_central_coordinate(loc.tpf0)]
    /\ log' = Append(log, Done([op |-> "get_central_coordinate"], "coord"))
    /\ pc' = "l101"
    /\ UNCHANGED <<fs, exc, pipeFrame>>

\* line 101
L101 ==
    /\ pc = "l101"
    /\ \E out \in SearchOutcomes :
        /\ log' = Append(log, Done(TesscutQuery(loc.coord, loc.sector), out))
        /\ IF out = "raise"
           THEN /\ pc' = AfterRaise(101)
                /\ exc' = Raise("SearchError", 101)
                /\ UNCHANGED loc
           ELSE /\ pc' = "l102"
                /\ loc' = [loc EXCEPT !.sr =
                             SearchResult("tesscut", IF out = "empty" THEN 0 ELSE 1)]
                /\ UNCHANGED exc
    /\ UNCHANGED <<fs, pipeFrame>>

\* line 102
L102 ==
    /\ pc = "l102"
    /\ \E out \in DownloadOutcomes(loc.sr), own \in BOOLEAN :
        /\ log' = Append(log, Done(DownloadCall("tesscut", CutoutSize(loc.tpf0)), out))
        /\ IF out = "raise"
           THEN /\ pc' = AfterRaise(102)
                /\ exc' = Raise("DownloadError", 102)
                /\ UNCHANGED loc
           ELSE IF out = "none"
           THEN /\ pc' = "l103"
                /\ loc' = [loc EXCEPT !.tpf = None]
                /\ UNCHANGED exc
           ELSE /\ pc' = "l103"
                /\ loc' = [loc EXCEPT !.tpf = Cutout(loc.coord, CutoutSize(loc.tpf0), own)]
                /\ UNCHANGED exc
    /\ UNCHANGED <<fs, pipeFrame>>

\* line 103.  tpf is None, or an object of the client library's class, which
\* accepts the assignment or rejects it (an attribute that cannot be set).
L103 ==
    /\ pc = "l103"
    /\ \E accepted \in BOOLEAN :
        IF loc.tpf.kind = "None" \/ ~accepted
        THEN /\ pc' = AfterRaise(103)
             /\ exc' = Raise("AttributeError", 103)
             /\ UNCHANGED <<loc, log>>
        ELSE /\ pc' = "l104"
             /\ loc' = [loc EXCEPT !.tpf = AssignMask(loc.tpf, loc.tpf0)]
             /\ log' = Append(log, Done([op |-> "assign"], "assigned"))
             /\ UNCHANGED exc
    /\ UNCHANGED <<fs, pipeFrame>>

\* line 104
L104 ==
    /\ pc = "l104"
    /\ pc' = "returned"
    /\ loc' = [loc EXCEPT !.ret = loc.tpf]
    /\ UNCHANGED <<fs, exc, log, pipeFrame>>

InitPipe ==
    /\ fs = None
    /\ hdul = "none"
    /\ opens = 0
    /\ cpc = "idle"
    /\ self = None
    /\ obj = None
    /\ exc = NoExc
    /\ result = None
    /\ ax = None
    /\ cm = OneMask
    /\ call = NoCall
    /\ pc = "l96"
    /\ \E tic \in Tics, sector \in Sectors : loc = NewLocals(tic, sector)
    /\ log = <<>>

NextPipe == L96 \/ L97 \/ L98 \/ Ctor \/ L98Return \/ L100 \/ L101 \/ L102 \/ L103 \/ L104

SpecPipe == InitPipe /\ [][NextPipe]_vars

----------------------------------------------------------------------------
(* Properties of the loader, checked under SpecLoad *)

Rows(a) == Cardinality({ p[1] : p \in DOMAIN a.data })
Cols(a) == Cardinality({ p[2] : p \in DOMAIN a.data })

\* C2: once the constructor has set pipeline_mask, the mask has the shape and
\* the cells of the flag array of the file, and a cell is true exactly when
\* bit value 2 of its flag is set: the flag is 2 or 3 above a multiple of 4,
\* so 2, 3, 6 and 7 give true and 0, 1, 4 and 5 give false.
C2_MaskIsBit2 ==
    (self.kind = "MyTPF" /\ self.pipeline_mask.kind = "ndarray") =>
        /\ self.pipeline_mask.shape = fs.flags.shape
        /\ DOMAIN self.pipeline_mask.data = DOMAIN fs.flags.data
        /\ \A p \in DOMAIN fs.flags.data :
             /\ self.pipeline_mask.data[p] = (fs.flags.data[p] % 4 \in {2, 3})
             /\ fs.flags.data[p] \in {2, 3, 6, 7} => self.pipeline_mask.data[p] = TRUE
             /\ fs.flags.data[p] \in {0, 1, 4, 5} => self.pipeline_mask.data[p] = FALSE

\* a constructed object whose file has a flag 5 (off) beside a flag 6 (on)
C2_Witness ==
    /\ cpc = "done"
    /\ \E p, q \in DOMAIN fs.flags.data :
         /\ fs.flags.data[p] = 5 /\ ~obj.pipeline_mask.data[p]
         /\ fs.flags.data[q] = 6 /\ obj.pipeline_mask.data[q]

\* C4: get_central_coordinate returns pixel_to_world at (w // 2, h // 2), the
\* column index first: for h rows and w columns the result lies w // 2 from
\* the reference value along the first axis and h // 2 along the second, and
\* n // 2 is n/2 for an even n and (n-1)/2 for an odd n.
C4_CentralCoordinate ==
    call.op = "get_central_coordinate" =>
        \E x \in 0 .. Cols(fs.flux), y \in 0 .. Rows(fs.flux) :
            /\ 2 * x \in {Cols(fs.flux), Cols(fs.flux) - 1}
            /\ 2 * y \in {Rows(fs.flux), Rows(fs.flux) - 1}
            /\ result.kind = "SkyCoord"
            /\ result.ra = fs.header.crval[1] + x
            /\ result.dec = fs.header.crval[2] + y

\* the central coordinate of an image of 2 rows and 3 columns: pixel (1, 1)
C4_Witness ==
    /\ call.op = "get_central_coordinate"
    /\ Rows(fs.flux) = 2 /\ Cols(fs.flux) = 3
    /\ result.ra = fs.header.crval[1] + 1
    /\ result.dec = fs.header.crval[2] + 1

\* C7: the handle is open only inside the constructor.  When the constructor
\* has returned, or has raised at any line, the handle is closed (or was never
\* opened, when fits.open itself raised), and the file has been opened at
\* most once however many methods were called afterwards.
C7_HandleScoped ==
    /\ hdul = "open" => cpc \in {"l27", "l29", "l30"}
    /\ opens <= 1
    /\ cpc = "done" => hdul = "closed" /\ opens = 1
    /\ cpc = "raised" =>
         IF exc.line = 26 THEN hdul = "none" /\ opens = 0
                          ELSE hdul = "closed" /\ opens = 1

\* reading extension 3 failed part-way and the handle is closed
C7_Witness ==
    /\ cpc = "raised"
    /\ exc = Raise("IndexError", 29)
    /\ self.flux.kind = "ndarray"
    /\ hdul = "closed"

----------------------------------------------------------------------------
(* Properties of the plot, checked under SpecPlot *)

TrueCells(m) == { p \in DOMAIN m.data : m.data[p] }

\* the artists from position k on are the overlay of mask m: unit rectangles,
\* one for each true cell (i, j) and no other, the one of (i, j) anchored at
\* (j - 0.5, i - 0.5)
OverlayOf(artists, k, m) ==
    LET rs == SubSeq(artists, k, Len(artists))
    IN  /\ Len(rs) = Cardinality(TrueCells(m))
        /\ \A n \in 1 .. Len(rs) :
             /\ rs[n].kind = "Rectangle"
             /\ rs[n].width = 1 /\ rs[n].height = 1
             /\ \E p \in TrueCells(m) : rs[n].xy2 = <<2 * p[2] - 1, 2 * p[1] - 1>>
        /\ \A p \in TrueCells(m) :
             Cardinality({ n \in 1 .. Len(rs) : rs[n].xy2 = <<2 * p[2] - 1, 2 * p[1] - 1>> }) = 1

\* C3: the overlay adds one unit rectangle for each true cell of the mask
\* passed and none for a false cell, the rectangle of cell (i, j) anchored at
\* (j - 0.5, i - 0.5); the number of rectangles is the number of true cells.
C3_OneRectanglePerTrueCell ==
    call.op = "_plot_aperture" => OverlayOf(ax.artists, 1, call.aperture_mask)

\* a 3 x 3 mask true only at (1, 1): one rectangle, at (0.5, 0.5)
C3_Witness ==
    /\ call.op = "_plot_aperture"
    /\ call.aperture_mask.shape = <<3, 3>>
    /\ TrueCells(call.aperture_mask) = {<<1, 1>>}
    /\ Len(ax.artists) = 1
    /\ ax.artists[1].xy2 = <<1, 1>>

\* C6 as stated: after a call of plot the axis is returned and holds the image
\* of the flux first; then the overlay of the object's pipeline_mask for
\* "pipeline", of the caller's array for an array, and nothing for None.
C6_PlotSelectsMask ==
    call.op = "plot" =>
        /\ exc = NoExc
        /\ result = ax
        /\ Len(ax.artists) >= 1
        /\ ax.artists[1] = [kind |-> "image", data |-> obj.flux]
        /\ call.aperture_mask.kind = "None" => Len(ax.artists) = 1
        /\ call.aperture_mask.kind = "str" => OverlayOf(ax.artists, 2, obj.pipeline_mask)
        /\ call.aperture_mask.kind = "ndarray" => OverlayOf(ax.artists, 2, call.aperture_mask)

\* C10: no call of shape, get_central_coordinate, plot or _plot_aperture
\* changes a field of the object or the caller's mask.
C10_CallsChangeNothing ==
    [][ /\ obj'.filename = obj.filename
        /\ obj'.flux = obj.flux
        /\ obj'.pipeline_mask = obj.pipeline_mask
        /\ obj'.wcs = obj.wcs
        /\ cm' = cm ]_vars

\* plot has returned after overlaying a caller's mask that differs from the
\* object's own, and the object is as the constructor left it
C10_Witness ==
    /\ call.op = "plot"
    /\ call.aperture_mask.kind = "ndarray"
    /\ exc = NoExc
    /\ call.aperture_mask # obj.pipeline_mask
    /\ Len(ax.artists) > 1
    /\ obj = Loaded(fs)

----------------------------------------------------------------------------
(* Properties of get_tasoc_tpf, checked under SpecPipe *)

\* C1: when get_tasoc_tpf returns, what it returns is the downloaded cutout
\* (its centre and its shape are those asked for), its pipeline_mask is, cell
\* for cell, the mask of the MyTPF loaded from the first product, and that
\* first object still has the mask the loader gave it.
C1_ReturnsCutoutWithLoaderMask ==
    pc = "returned" =>
        /\ loc.ret.kind = "TessTargetPixelFile"
        /\ loc.ret.center = loc.coord
        /\ loc.ret.shape = loc.tpf0.flux.shape
        /\ loc.ret.pipeline_mask.shape = loc.tpf0.pipeline_mask.shape
        /\ \A p \in DOMAIN loc.tpf0.pipeline_mask.data :
             loc.ret.pipeline_mask.data[p] = loc.tpf0.pipeline_mask.data[p]
        /\ loc.tpf0 = Loaded(fs)
        /\ obj = Loaded(fs)

\* a returned cutout whose mask has a true and a false cell, so that it is
\* not the uniform mask the cutout came with
C1_Witness ==
    /\ pc = "returned"
    /\ \E p, q \in DOMAIN loc.ret.pipeline_mask.data :
         loc.ret.pipeline_mask.data[p] /\ ~loc.ret.pipeline_mask.data[q]

Failed(k) == log[k].out \in {"raise", "empty", "none"}

\* C5 as stated: after a failing step, a search that returned nothing
\* included, no later step is executed.
C5_NoStepAfterFailure ==
    \A k \in 1 .. Len(log) : Failed(k) => k = Len(log)

\* C5, amended: a step that raises is the last step executed and its error
\* leaves the function; after a search that returned nothing only the download
\* on that result is attempted, which raises or returns None, and the call
\* ends with an error; no step is attempted twice; an error raised inside the
\* constructor is on its way out of the function or has left it; no object is
\* returned unless every step succeeded.
C5_FailurePropagates ==
    /\ \A k \in 1 .. Len(log) :
         /\ log[k].out = "raise" => k = Len(log) /\ pc = "raised" /\ exc # NoExc
         /\ log[k].out = "empty" =>
              /\ log[k].call.op \in {"search_lightcurve", "search_tesscut"}
              /\ Len(log) <= k + 1
              /\ Len(log) = k + 1 =>
                   /\ log[k + 1].call.op = "download"
                   /\ log[k + 1].out \in {"raise", "none"}
              /\ pc # "returned"
         /\ log[k].out = "none" => k = Len(log) /\ pc \in {"l98", "l103", "raised"}
    /\ \A j, k \in 1 .. Len(log) : log[j].call = log[k].call => j = k
    /\ \A op \in {"search_lightcurve", "search_tesscut"} :
         Cardinality({ k \in 1 .. Len(log) : log[k].call.op = op }) <= 1
    /\ \A sv \in {"lightcurve", "tesscut"} :
         Cardinality({ k \in 1 .. Len(log) :
                         log[k].call.op = "download" /\ log[k].call.service = sv }) <= 1
    /\ pc = "raised" => exc # NoExc
    /\ exc # NoExc => pc = "raised" \/ (pc = "l98c" /\ cpc = "raised")
    /\ pc # "returned" => loc.ret = None

\* the first search returned nothing, the download on it returned None, and
\* the error of line 98 reached the caller
C5_Witness ==
    /\ pc = "raised"
    /\ Len(log) = 2
    /\ log[1].out = "empty"
    /\ log[2].out = "none"
    /\ exc = Raise("AttributeError", 98)
    /\ loc.ret = None

\* C8: a successful run has made these calls, each once, in this order: the
\* TASOC search for the TIC with the caller's sector, the download, MyTPF on
\* the downloaded file, get_central_coordinate, the cutout search at that
\* coordinate with the caller's sector, the download, the assignment; and at
\* any time a cutout search has been issued only after the first product was
\* downloaded and loaded.
C8_StepsInOrder ==
    /\ pc = "returned" =>
         /\ Len(log) = 7
         /\ log[1].call.op = "search_lightcurve"
         /\ log[1].call.target = <<"TIC ", loc.tic>>
         /\ log[1].call.author = "tasoc"
         /\ log[1].call.sector = loc.sector
         /\ log[2].call.op = "download" /\ log[2].call.service = "lightcurve"
         /\ log[3].call.op = "MyTPF" /\ log[3].call.filename = loc.lc.filename
         /\ log[4].call.op = "get_central_coordinate"
         /\ log[5].call.op = "search_tesscut"
         /\ log[5].call.target = loc.coord
         /\ log[5].call.sector = loc.sector
         /\ log[6].call.op = "download" /\ log[6].call.service = "tesscut"
         /\ log[7].call.op = "assign"
    /\ \A k \in 1 .. Len(log) :
         log[k].call.op = "search_tesscut" =>
             /\ loc.tpf0 # None
             /\ \E i, j \in 1 .. k - 1 :
                  /\ i < j
                  /\ log[i].call.op = "download" /\ log[i].out = "product"
                  /\ log[j].call.op = "MyTPF" /\ log[j].out = "object"

\* a successful run for sector 6
C8_Witness ==
    /\ pc = "returned"
    /\ loc.sector = IntV(6)
    /\ Len(log) = 7

\* C9: the cutout is asked for with the (rows, columns) of the flux array of
\* the first product, and when that product is well formed the mask assigned
\* to the returned cutout has the same (rows, columns).
C9_CutoutSizeIsShape ==
    /\ \A k \in 1 .. Len(log) :
         (log[k].call.op = "download" /\ log[k].call.service = "tesscut") =>
             log[k].call.cutout_size.shape = <<Rows(fs.flux), Cols(fs.flux)>>
    /\ (pc = "returned" /\ WellFormed(fs)) =>
         /\ loc.ret.pipeline_mask.shape = <<Rows(fs.flux), Cols(fs.flux)>>
         /\ loc.ret.pipeline_mask.shape = log[6].call.cutout_size.shape

\* a successful run on a well-formed product of 2 rows and 3 columns
C9_Witness ==
    /\ pc = "returned"
    /\ WellFormed(fs)
    /\ log[6].call.cutout_size.shape = <<2, 3>>
    /\ Rows(loc.ret.pipeline_mask) = 2 /\ Cols(loc.ret.pipeline_mask) = 3

====
